---- MODULE Spec2Model ----
(***************************************************************************)
(* Finite-automaton engine (class Automaton): the model API, simulation,   *)
(* subset construction, minimization, clone and JSON export/import.        *)
(*                                                                         *)
(* A JavaScript Set is modelled as a set; where the code iterates a Set or *)
(* the keys of an object, the model iterates in one fixed order.  The      *)
(* transition table  transitions[from][symbol]  (a state for a DFA, a Set  *)
(* of states for an NFA) is the set of triples <<from, symbol, to>>        *)
(* together with entries, the pairs <<from, symbol>> the table has a key   *)
(* for: a key whose Set is empty is an entry without a triple.             *)
(* The one-character symbol 'ε' is written "eps", the name 'Ø' of the      *)
(* empty state set "{/}", and null is written "null".                      *)
(*                                                                         *)
(* Beside the automaton under edit the state holds what its callers hold:  *)
(* returned[d], the last call of a non-mutating method by driver d with    *)
(* the value it returned; copy, an automaton obtained by clone(); shared,  *)
(* the containers (Set or table objects) that copy and the automaton both  *)
(* refer to; edits, the number of model-API calls made since the clone;    *)
(* simulator, the fields of the AutomatonSimulator that holds the          *)
(* automaton, with the number of timer callbacks it has pending.           *)
(***************************************************************************)
EXTENDS Integers, Sequences, FiniteSets

VARIABLES type, states, alphabet, transitions, entries, initialState,
          finalStates, returned, copy, shared, edits, simulator

automaton ==
    <<type, states, alphabet, transitions, entries, initialState, finalStates>>

callers == <<returned, copy, shared, edits, simulator>>

vars == <<type, states, alphabet, transitions, entries, initialState,
          finalStates, returned, copy, shared, edits, simulator>>

(***************************************************************************)
(* Bounds of the model and the values the calls are drawn from.            *)
(***************************************************************************)
MaxTrans == 3
MaxInputLen == 2
MaxDfaStates == 8
MaxSetLen == 16

EPS == "eps"
NULL == "null"
EmptySetName == "{/}"

StateNames == {"q0", "q1"}
Symbols == {"a", "b"}
TransSymbols == Symbols \cup {EPS}
AlphabetChoices == SUBSET TransSymbols
InputChars == Symbols \cup {EPS}

\* Names, and the characters of names, in the order of JavaScript's default
\* (string) sort.
NameOrder ==
    <<"0", "1", "2", "3", "4", "5", "6", "7", "8", "9", "null", "q",
      "q0", "q1", "q10", "q11", "q2", "q3", "q4", "q5", "q6", "q7", "q8", "q9">>

Rank(s) == CHOOSE i \in 1..Len(NameOrder) : NameOrder[i] = s

\* `q${i}`
QNames ==
    <<"q0", "q1", "q2", "q3", "q4", "q5", "q6", "q7", "q8", "q9", "q10", "q11">>

QName(i) == QNames[i + 1]

Digits == <<"0", "1", "2", "3", "4", "5", "6", "7", "8", "9">>

\* the characters a for...of loop over the string name yields
Chars(name) ==
    IF \E i \in 0..9 : QName(i) = name
    THEN <<"q", Digits[(CHOOSE i \in 0..9 : QName(i) = name) + 1]>>
    ELSE <<"q", "1", Digits[(CHOOSE i \in 10..11 : QName(i) = name) - 9]>>

(***************************************************************************)
(* Helpers: iteration order and sorting.                                   *)
(***************************************************************************)
RECURSIVE SetToSeq(_)
SetToSeq(S) ==
    IF S = {} THEN <<>>
    ELSE LET x == CHOOSE y \in S : TRUE IN <<x>> \o SetToSeq(S \ {x})

SeqToSet(q) == {q[i] : i \in 1..Len(q)}

RECURSIVE InsertSorted(_, _)
InsertSorted(q, x) ==
    IF q = <<>> THEN <<x>>
    ELSE IF Rank(x) < Rank(Head(q)) THEN <<x>> \o q
    ELSE <<Head(q)>> \o InsertSorted(Tail(q), x)

\* Array.prototype.sort() on an array of state names.
RECURSIVE SortNames(_)
SortNames(q) ==
    IF q = <<>> THEN <<>> ELSE InsertSorted(SortNames(Tail(q)), Head(q))

(***************************************************************************)
(* The automaton as a value, and the model API on it.                      *)
(***************************************************************************)
NewAutomaton(t) ==
    [type |-> t, states |-> {}, alphabet |-> {}, transitions |-> {},
     entries |-> {}, initialState |-> NULL, finalStates |-> {}]

Self ==
    [type |-> type, states |-> states, alphabet |-> alphabet,
     transitions |-> transitions, entries |-> entries,
     initialState |-> initialState, finalStates |-> finalStates]

\* transitions[from][symbol] is set (truthy)
HasTrans(A, from, symbol) == <<from, symbol>> \in A.entries

\* the keys of a table that holds the triples T and no empty Set
Keys(T) == {<<tr[1], tr[2]>> : tr \in T}

\* the members of transitions[from][symbol]
Targets(A, from, symbol) ==
    {tr[3] : tr \in {x \in A.transitions : x[1] = from /\ x[2] = symbol}}

addState(A, state) == [A EXCEPT !.states = @ \cup {state}]

\* removeState that forgets the transitions into the removed state
removeStateKeepsIncoming(A, state) ==
    [A EXCEPT !.states = @ \ {state},
              !.initialState = IF @ = state THEN NULL ELSE @,
              !.finalStates = @ \ {state},
              !.transitions = {tr \in @ : tr[1] # state},
              !.entries = {e \in @ : e[1] # state}]

\* removeState that leaves the entry of an NFA in place when its Set empties
removeStateKeepsEmptyEntry(A, state) ==
    [A EXCEPT !.states = @ \ {state},
              !.initialState = IF @ = state THEN NULL ELSE @,
              !.finalStates = @ \ {state},
              !.transitions = {tr \in @ : tr[1] # state /\ tr[3] # state},
              !.entries =
                  {e \in @ :
                      /\ e[1] # state
                      /\ A.type = "DFA" => Targets(A, e[1], e[2]) # {state}}]

\* the row of state is deleted; in the other rows the entry of a DFA is
\* deleted when its target is state, and the Set of an NFA loses state and
\* its entry is deleted when the Set is empty then
removeState(A, state) ==
    [A EXCEPT !.states = @ \ {state},
              !.initialState = IF @ = state THEN NULL ELSE @,
              !.finalStates = @ \ {state},
              !.transitions = {tr \in @ : tr[1] # state /\ tr[3] # state},
              !.entries =
                  {e \in @ :
                      /\ e[1] # state
                      /\ IF A.type = "DFA"
                         THEN Targets(A, e[1], e[2]) # {state}
                         ELSE Targets(A, e[1], e[2]) \ {state} # {}}]

setAlphabet(A, alph) == [A EXCEPT !.alphabet = alph]

setInitialState(A, state) ==
    IF state \in A.states THEN [A EXCEPT !.initialState = state] ELSE A

toggleFinalState(A, state, isFinal) ==
    IF state \in A.states
    THEN IF isFinal THEN [A EXCEPT !.finalStates = @ \cup {state}]
         ELSE [A EXCEPT !.finalStates = @ \ {state}]
    ELSE A

\* the value addTransition returns
addTransitionRet(A, fromState, symbol, toState) ==
    fromState \in A.states /\ toState \in A.states

\* addTransition that checks the source state only
addTransitionChecksFromOnly(A, fromState, symbol, toState) ==
    IF fromState \notin A.states THEN A
    ELSE [A EXCEPT
            !.alphabet = IF symbol # EPS THEN @ \cup {symbol} ELSE @,
            !.entries = @ \cup {<<fromState, symbol>>},
            !.transitions =
                IF A.type = "DFA"
                THEN {tr \in @ : ~(tr[1] = fromState /\ tr[2] = symbol)}
                         \cup {<<fromState, symbol, toState>>}
                ELSE @ \cup {<<fromState, symbol, toState>>}]

addTransition(A, fromState, symbol, toState) ==
    IF ~(fromState \in A.states /\ toState \in A.states) THEN A
    ELSE [A EXCEPT
            !.alphabet = IF symbol # EPS THEN @ \cup {symbol} ELSE @,
            !.entries = @ \cup {<<fromState, symbol>>},
            !.transitions =
                IF A.type = "DFA"
                THEN {tr \in @ : ~(tr[1] = fromState /\ tr[2] = symbol)}
                         \cup {<<fromState, symbol, toState>>}
                ELSE @ \cup {<<fromState, symbol, toState>>}]

\* the value removeTransition returns
removeTransitionRet(A, fromState, symbol, toState) ==
    HasTrans(A, fromState, symbol)

\* removeTransition that leaves the entry of an NFA in place when its Set
\* empties
removeTransitionKeepsEmptyEntry(A, fromState, symbol, toState) ==
    IF ~HasTrans(A, fromState, symbol) THEN A
    ELSE LET left ==
                 IF A.type = "DFA"
                 THEN {tr \in A.transitions :
                          ~(tr[1] = fromState /\ tr[2] = symbol)}
                 ELSE A.transitions \ {<<fromState, symbol, toState>>}
             kept ==
                 IF A.type = "DFA" THEN A.entries \ {<<fromState, symbol>>}
                 ELSE A.entries
             symbolInUse == \E e \in kept : e[2] = symbol
         IN  [A EXCEPT
                !.transitions = left,
                !.entries = kept,
                !.alphabet = IF ~symbolInUse /\ symbol # EPS
                             THEN @ \ {symbol} ELSE @]

\* removeTransition that never drops the symbol from the alphabet
removeTransitionKeepsSymbol(A, fromState, symbol, toState) ==
    IF ~HasTrans(A, fromState, symbol) THEN A
    ELSE [A EXCEPT
            !.transitions =
                IF A.type = "DFA"
                THEN {tr \in @ : ~(tr[1] = fromState /\ tr[2] = symbol)}
                ELSE @ \ {<<fromState, symbol, toState>>},
            !.entries =
                IF A.type = "DFA"
                       \/ Targets(A, fromState, symbol) \ {toState} = {}
                THEN @ \ {<<fromState, symbol>>} ELSE @]

\* the entry of a DFA is deleted; the Set of an NFA loses toState and its
\* entry is deleted when the Set is empty then; symbolInUse looks for an
\* entry of symbol in every row
removeTransition(A, fromState, symbol, toState) ==
    IF ~HasTrans(A, fromState, symbol) THEN A
    ELSE LET left ==
                 IF A.type = "DFA"
                 THEN {tr \in A.transitions :
                          ~(tr[1] = fromState /\ tr[2] = symbol)}
                 ELSE A.transitions \ {<<fromState, symbol, toState>>}
             kept ==
                 IF A.type = "DFA"
                        \/ Targets(A, fromState, symbol) \ {toState} = {}
                 THEN A.entries \ {<<fromState, symbol>>}
                 ELSE A.entries
             symbolInUse == \E e \in kept : e[2] = symbol
         IN  [A EXCEPT
                !.transitions = left,
                !.entries = kept,
                !.alphabet = IF ~symbolInUse /\ symbol # EPS
                             THEN @ \ {symbol} ELSE @]

(***************************************************************************)
(* Epsilon closure and move, on arrays of states (duplicates are kept as   *)
(* the code keeps them).                                                   *)
(***************************************************************************)
\* what  for (const nextState of this.transitions[state]['ε'])  yields: the
\* members of the Set of an NFA, the characters of the target name of a DFA
EpsilonTargets(A, state) ==
    IF A.type = "DFA"
    THEN UNION {SeqToSet(Chars(to)) : to \in Targets(A, state, EPS)}
    ELSE Targets(A, state, EPS)

\* the while loop of _epsilonClosure: closure and stack are arrays
RECURSIVE EpsilonLoop(_, _, _)
EpsilonLoop(A, closure, stack) ==
    IF stack = <<>> THEN closure
    ELSE LET state == stack[Len(stack)]
             rest == SubSeq(stack, 1, Len(stack) - 1)
             fresh == SetToSeq(EpsilonTargets(A, state) \ SeqToSet(closure))
         IN  EpsilonLoop(A, closure \o fresh, rest \o fresh)

\* _epsilonClosure that starts from an empty closure
epsilonClosureWithoutStart(A, stateSet) ==
    SortNames(EpsilonLoop(A, <<>>, stateSet))

\* _epsilonClosure that follows no eps-transition
epsilonClosureNoFollow(A, stateSet) == SortNames(stateSet)

_epsilonClosure(A, stateSet) == SortNames(EpsilonLoop(A, stateSet, stateSet))

\* the for loop that concatenates the targets of each member of stateSet
RECURSIVE MoveConcat(_, _, _)
MoveConcat(A, stateSet, symbol) ==
    IF stateSet = <<>> THEN <<>>
    ELSE SetToSeq(Targets(A, Head(stateSet), symbol))
             \o MoveConcat(A, Tail(stateSet), symbol)

\* _getNextStates that returns the sorted targets without their eps-closure
getNextStatesWithoutClosure(A, stateSet, symbol) ==
    SortNames(MoveConcat(A, stateSet, symbol))

_getNextStates(A, stateSet, symbol) ==
    _epsilonClosure(A, MoveConcat(A, stateSet, symbol))

\* String(x) inside Array.prototype.join: null joins as the empty string
JoinStr(x) == IF x = NULL THEN "" ELSE x

RECURSIVE Join(_)
Join(q) ==
    IF q = <<>> THEN ""
    ELSE IF Len(q) = 1 THEN JoinStr(q[1])
    ELSE JoinStr(q[1]) \o "," \o Join(Tail(q))

_getSetName(stateSet) ==
    IF stateSet = <<>> THEN EmptySetName ELSE "{" \o Join(stateSet) \o "}"

\* a set taken for final only when every member is final
AllFinal(A, stateSet) ==
    \A k \in 1..Len(stateSet) : stateSet[k] \in A.finalStates

\* stateSet.some(state => this.finalStates.has(state))
AnyFinal(A, stateSet) ==
    \E k \in 1..Len(stateSet) : stateSet[k] \in A.finalStates

(***************************************************************************)
(* simulate: the result is [accepted, path, error]; error is <<>> when the *)
(* result has no error field, else <<kind, state or "", symbol>>.          *)
(***************************************************************************)
NoError == <<>>

\* transitions[state][symbol] of a DFA
Target(A, state, symbol) == CHOOSE t \in Targets(A, state, symbol) : TRUE

Substring(input, from) == SubSeq(input, from, Len(input))

\* the loop of _simulateDFA without its alphabet check
RECURSIVE SimulateDFALoopNoAlphabetCheck(_, _, _, _, _)
SimulateDFALoopNoAlphabetCheck(A, input, i, currentState, path) ==
    IF i > Len(input)
    THEN [accepted |-> currentState \in A.finalStates, path |-> path,
          error |-> NoError]
    ELSE LET symbol == input[i] IN
         IF ~HasTrans(A, currentState, symbol)
         THEN [accepted |-> FALSE, path |-> path,
               error |-> <<"MissingTransition", currentState, symbol>>]
         ELSE LET next == Target(A, currentState, symbol) IN
              SimulateDFALoopNoAlphabetCheck(A, input, i + 1, next,
                  Append(path, [state |-> next, input |-> Substring(input, i + 1)]))

RECURSIVE SimulateDFALoop(_, _, _, _, _)
SimulateDFALoop(A, input, i, currentState, path) ==
    IF i > Len(input)
    THEN [accepted |-> currentState \in A.finalStates, path |-> path,
          error |-> NoError]
    ELSE LET symbol == input[i] IN
         IF symbol \notin A.alphabet
         THEN [accepted |-> FALSE, path |-> path,
               error |-> <<"UnknownSymbol", "", symbol>>]
         ELSE IF ~HasTrans(A, currentState, symbol)
         THEN [accepted |-> FALSE, path |-> path,
               error |-> <<"MissingTransition", currentState, symbol>>]
         ELSE LET next == Target(A, currentState, symbol) IN
              SimulateDFALoop(A, input, i + 1, next,
                  Append(path, [state |-> next, input |-> Substring(input, i + 1)]))

_simulateDFA(A, input) ==
    IF A.initialState = NULL
    THEN [accepted |-> FALSE, path |-> <<>>, error |-> NoError]
    ELSE SimulateDFALoop(A, input, 1, A.initialState,
             <<[state |-> A.initialState, input |-> input]>>)

RECURSIVE SimulateNFALoop(_, _, _, _, _)
SimulateNFALoop(A, input, i, currentStates, path) ==
    IF i > Len(input)
    THEN [accepted |-> \E k \in 1..Len(currentStates) :
                          currentStates[k] \in A.finalStates,
          path |-> path, error |-> NoError]
    ELSE LET symbol == input[i] IN
         IF symbol \notin A.alphabet
         THEN [accepted |-> FALSE, path |-> path,
               error |-> <<"UnknownSymbol", "", symbol>>]
         ELSE LET next == _epsilonClosure(A, MoveConcat(A, currentStates, symbol)) IN
              IF Len(next) = 0
              THEN [accepted |-> FALSE, path |-> path,
                    error |-> <<"NoReachableStates", "", symbol>>]
              ELSE SimulateNFALoop(A, input, i + 1, next,
                       Append(path, [states |-> next, input |-> Substring(input, i + 1)]))

\* _simulateNFA that starts from the initial state alone
simulateNFAFromInitialOnly(A, input) ==
    IF A.initialState = NULL
    THEN [accepted |-> FALSE, path |-> <<>>, error |-> NoError]
    ELSE SimulateNFALoop(A, input, 1, <<A.initialState>>,
             <<[states |-> <<A.initialState>>, input |-> input]>>)

_simulateNFA(A, input) ==
    IF A.initialState = NULL
    THEN [accepted |-> FALSE, path |-> <<>>, error |-> NoError]
    ELSE LET start == _epsilonClosure(A, <<A.initialState>>) IN
         SimulateNFALoop(A, input, 1, start, <<[states |-> start, input |-> input]>>)

simulate(A, input) ==
    IF A.type = "DFA" THEN _simulateDFA(A, input) ELSE _simulateNFA(A, input)

(***************************************************************************)
(* simulateStep: the first step symbols are replayed from the initial      *)
(* state.  The result is [state, states, remainingInput, accepted,         *)
(* complete, error]; states: null (every result of a DFA) is written <<>>. *)
(***************************************************************************)
\* input.substring(0, step) and input.substring(step), for step >= 0
ProcessedInput(input, step) ==
    SubSeq(input, 1, IF step < Len(input) THEN step ELSE Len(input))

RemainingInput(input, step) == SubSeq(input, step + 1, Len(input))

RECURSIVE StepDFALoop(_, _, _, _, _)
StepDFALoop(A, processedInput, remainingInput, i, currentState) ==
    IF i > Len(processedInput)
    THEN [state |-> currentState, states |-> <<>>,
          remainingInput |-> remainingInput,
          accepted |-> currentState \in A.finalStates,
          complete |-> Len(remainingInput) = 0, error |-> NoError]
    ELSE LET symbol == processedInput[i] IN
         IF ~HasTrans(A, currentState, symbol)
         THEN [state |-> currentState, states |-> <<>>,
               remainingInput |-> remainingInput, accepted |-> FALSE,
               complete |-> TRUE,
               error |-> <<"MissingTransition", currentState, symbol>>]
         ELSE StepDFALoop(A, processedInput, remainingInput, i + 1,
                          Target(A, currentState, symbol))

RECURSIVE StepNFALoop(_, _, _, _, _)
StepNFALoop(A, processedInput, remainingInput, i, currentStates) ==
    IF i > Len(processedInput)
    THEN [state |-> NULL, states |-> currentStates,
          remainingInput |-> remainingInput,
          accepted |-> AnyFinal(A, currentStates),
          complete |-> Len(remainingInput) = 0, error |-> NoError]
    ELSE LET symbol == processedInput[i]
             next == _epsilonClosure(A, MoveConcat(A, currentStates, symbol))
         IN  IF Len(next) = 0
             THEN [state |-> NULL, states |-> <<>>,
                   remainingInput |-> remainingInput, accepted |-> FALSE,
                   complete |-> TRUE,
                   error |-> <<"NoReachableStates", "", symbol>>]
             ELSE StepNFALoop(A, processedInput, remainingInput, i + 1, next)

\* simulateStep whose step 0 of an NFA is the initial state alone
simulateStepFromInitialOnly(A, input, step) ==
    IF step = 0
    THEN IF A.type = "DFA"
         THEN [state |-> A.initialState, states |-> <<>>,
               remainingInput |-> input,
               accepted |-> A.initialState \in A.finalStates,
               complete |-> Len(input) = 0, error |-> NoError]
         ELSE [state |-> NULL, states |-> <<A.initialState>>,
               remainingInput |-> input,
               accepted |-> AnyFinal(A, <<A.initialState>>),
               complete |-> Len(input) = 0, error |-> NoError]
    ELSE IF A.type = "DFA"
    THEN StepDFALoop(A, ProcessedInput(input, step), RemainingInput(input, step),
                     1, A.initialState)
    ELSE StepNFALoop(A, ProcessedInput(input, step), RemainingInput(input, step),
                     1, _epsilonClosure(A, <<A.initialState>>))

simulateStep(A, input, step) ==
    IF step = 0
    THEN IF A.type = "DFA"
         THEN [state |-> A.initialState, states |-> <<>>,
               remainingInput |-> input,
               accepted |-> A.initialState \in A.finalStates,
               complete |-> Len(input) = 0, error |-> NoError]
         ELSE LET initialStates == _epsilonClosure(A, <<A.initialState>>) IN
              [state |-> NULL, states |-> initialStates,
               remainingInput |-> input,
               accepted |-> AnyFinal(A, initialStates),
               complete |-> Len(input) = 0, error |-> NoError]
    ELSE IF A.type = "DFA"
    THEN StepDFALoop(A, ProcessedInput(input, step), RemainingInput(input, step),
                     1, A.initialState)
    ELSE StepNFALoop(A, ProcessedInput(input, step), RemainingInput(input, step),
                     1, _epsilonClosure(A, <<A.initialState>>))

(***************************************************************************)
(* validate: the result is [valid, errors]; errors is the array of         *)
(* findings in the order the code pushes them.                             *)
(***************************************************************************)
\* the loop over the alphabet for one state of a DFA
RECURSIVE ValidateSymbols(_, _, _)
ValidateSymbols(A, state, symbols) ==
    IF symbols = <<>> THEN <<>>
    ELSE (IF ~HasTrans(A, state, Head(symbols))
          THEN <<<<"NoTransition", state, Head(symbols)>>>> ELSE <<>>)
             \o ValidateSymbols(A, state, Tail(symbols))

\* the loop over the states of a DFA
RECURSIVE ValidateStates(_, _)
ValidateStates(A, sts) ==
    IF sts = <<>> THEN <<>>
    ELSE ValidateSymbols(A, Head(sts), SetToSeq(A.alphabet))
             \o ValidateStates(A, Tail(sts))

\* validate that returns at its first finding
validateFirstFindingOnly(A) ==
    IF A.initialState = NULL
    THEN [valid |-> FALSE, errors |-> <<<<"NoInitialState", "", "">>>>]
    ELSE IF A.finalStates = {}
    THEN [valid |-> FALSE, errors |-> <<<<"NoFinalStates", "", "">>>>]
    ELSE LET errors == IF A.type = "DFA"
                       THEN ValidateStates(A, SetToSeq(A.states)) ELSE <<>>
         IN  [valid |-> Len(errors) = 0,
              errors |-> IF Len(errors) = 0 THEN <<>> ELSE <<Head(errors)>>]

validate(A) ==
    LET errors ==
            (IF A.initialState = NULL THEN <<<<"NoInitialState", "", "">>>> ELSE <<>>)
                \o (IF A.finalStates = {} THEN <<<<"NoFinalStates", "", "">>>> ELSE <<>>)
                \o (IF A.type = "DFA" THEN ValidateStates(A, SetToSeq(A.states)) ELSE <<>>)
    IN  [valid |-> Len(errors) = 0, errors |-> errors]

(***************************************************************************)
(* AutomatonSimulator.isDeterministic, on the automaton the simulator      *)
(* holds (NoAutomaton when it holds none).                                 *)
(***************************************************************************)
NoAutomaton == [type |-> "none"]

isDeterministic(A) ==
    IF A = NoAutomaton THEN FALSE
    ELSE IF Cardinality(A.states) = 0 \/ Cardinality(A.alphabet) = 0 THEN TRUE
    ELSE IF \E e \in A.entries : e[2] = EPS THEN FALSE
    ELSE IF \E state \in A.states, symbol \in A.alphabet :
               /\ ~(Cardinality(A.states) <= 1)
               /\ A.type = "NFA"
               /\ HasTrans(A, state, symbol)
               /\ Cardinality(Targets(A, state, symbol)) > 1
    THEN FALSE
    ELSE TRUE

(***************************************************************************)
(* AutomatonSimulator: the fields input, step, simulationState and         *)
(* isRunning, and timers, the number of callbacks setTimeout has pending.  *)
(* The methods take the simulator S and the automaton A it holds.          *)
(***************************************************************************)
\* simulationState: null
NoSimulationState == [state |-> "none"]

NewSimulator ==
    [input |-> <<>>, step |-> 0, simulationState |-> NoSimulationState,
     isRunning |-> FALSE, timers |-> 0]

\* reset that leaves step where it is
resetKeepsStep(S) ==
    [S EXCEPT !.simulationState = NoSimulationState, !.isRunning = FALSE]

reset(S) ==
    [S EXCEPT !.step = 0, !.simulationState = NoSimulationState,
              !.isRunning = FALSE]

setInput(S, input) == reset([S EXCEPT !.input = input])

performStep(S, A) ==
    LET st == simulateStep(A, S.input, S.step) IN
    [S EXCEPT !.simulationState = st,
              !.step = IF ~st.complete /\ st.error = NoError THEN @ + 1 ELSE @]

_runNextStep(S, A) ==
    IF ~S.isRunning THEN S
    ELSE LET S2 == performStep(S, A) IN
         IF S2.simulationState.complete \/ S2.simulationState.error # NoError
         THEN [S2 EXCEPT !.isRunning = FALSE]
         ELSE [S2 EXCEPT !.timers = @ + 1]

runToCompletion(S, A) ==
    IF S.isRunning THEN S
    ELSE _runNextStep(reset([S EXCEPT !.isRunning = TRUE]), A)

(***************************************************************************)
(* clone, toJSON and fromJSON: a new automaton filled through the model    *)
(* API.                                                                    *)
(***************************************************************************)
RECURSIVE AddStates(_, _)
AddStates(B, q) ==
    IF q = <<>> THEN B ELSE AddStates(addState(B, Head(q)), Tail(q))

RECURSIVE AddFinals(_, _)
AddFinals(B, q) ==
    IF q = <<>> THEN B ELSE AddFinals(toggleFinalState(B, Head(q), TRUE), Tail(q))

RECURSIVE AddTransitions(_, _)
AddTransitions(B, q) ==
    IF q = <<>> THEN B
    ELSE AddTransitions(addTransition(B, Head(q)[1], Head(q)[2], Head(q)[3]),
                        Tail(q))

clone(A) ==
    LET c1 == AddStates(NewAutomaton(A.type), SetToSeq(A.states))
        c2 == setAlphabet(c1, A.alphabet)
        c3 == [c2 EXCEPT !.initialState = A.initialState]
        c4 == AddFinals(c3, SetToSeq(A.finalStates))
    IN  AddTransitions(c4, SetToSeq(A.transitions))

\* Array.from on each Set; transitions keyed by source state, then by symbol
toJSON(A) ==
    [type |-> A.type,
     states |-> SetToSeq(A.states),
     alphabet |-> SetToSeq(A.alphabet),
     initialState |-> A.initialState,
     finalStates |-> SetToSeq(A.finalStates),
     transitions |->
        [from \in {e[1] : e \in A.entries} |->
            [symbol \in {e[2] : e \in {x \in A.entries : x[1] = from}} |->
                IF A.type = "DFA" THEN Target(A, from, symbol)
                ELSE SetToSeq(Targets(A, from, symbol))]]]

\* the triples the nested loops of fromJSON pass to addTransition
JSONTriples(json) ==
    UNION {UNION {IF json.type = "DFA"
                  THEN {<<from, symbol, json.transitions[from][symbol]>>}
                  ELSE {<<from, symbol, to>> :
                           to \in SeqToSet(json.transitions[from][symbol])} :
                  symbol \in DOMAIN json.transitions[from]} :
           from \in DOMAIN json.transitions}

fromJSON(json) ==
    LET a1 == AddStates(NewAutomaton(json.type), json.states)
        a2 == setAlphabet(a1, SeqToSet(json.alphabet))
        a3 == [a2 EXCEPT !.initialState = json.initialState]
        a4 == AddFinals(a3, json.finalStates)
    IN  AddTransitions(a4, SetToSeq(JSONTriples(json)))

(***************************************************************************)
(* normalize: states renamed q0, q1, ... through stateMap, an object whose *)
(* keys are the old names in insertion order (stateMap[null] is the key    *)
(* "null").                                                                *)
(***************************************************************************)
MapHas(stateMap, old) == \E i \in 1..Len(stateMap) : stateMap[i][1] = old

MapGet(stateMap, old) ==
    stateMap[CHOOSE i \in 1..Len(stateMap) : stateMap[i][1] = old][2]

\* stateMap[state] = `q${stateIndex++}` for each state of q not mapped yet
RECURSIVE MapRest(_, _)
MapRest(stateMap, q) ==
    IF q = <<>> THEN stateMap
    ELSE IF MapHas(stateMap, Head(q)) THEN MapRest(stateMap, Tail(q))
    ELSE MapRest(Append(stateMap, <<Head(q), QName(Len(stateMap))>>), Tail(q))

NormalizeMap(A) ==
    MapRest(MapRest(<<<<A.initialState, QName(0)>>>>, SetToSeq(A.finalStates)),
            SetToSeq(A.states))

\* the loop over the keys of stateMap
RECURSIVE NormalizeStates(_, _, _)
NormalizeStates(A, B, stateMap) ==
    IF stateMap = <<>> THEN B
    ELSE LET oldState == Head(stateMap)[1]
             newState == Head(stateMap)[2]
             b1 == addState(B, newState)
             b2 == IF A.initialState # NULL /\ oldState = A.initialState
                   THEN setInitialState(b1, newState) ELSE b1
             b3 == IF oldState \in A.finalStates
                   THEN toggleFinalState(b2, newState, TRUE) ELSE b2
         IN  NormalizeStates(A, b3, Tail(stateMap))

normalize(A) ==
    LET stateMap == NormalizeMap(A)
        n1 == NormalizeStates(A, NewAutomaton(A.type), stateMap)
        renamed == {<<MapGet(stateMap, tr[1]), tr[2], MapGet(stateMap, tr[3])>> :
                       tr \in A.transitions}
        n2 == AddTransitions(n1, SetToSeq(renamed))
    IN  setAlphabet(n2, A.alphabet)

(***************************************************************************)
(* convertToDFA: subset construction.  The result is [done, dfa, sets];    *)
(* done is FALSE when the work list has produced more than MaxDfaStates    *)
(* states or a state set of more than MaxSetLen entries, where the model   *)
(* stops following the loop; sets are the state                            *)
(* sets that were given a DFA state, in the order they were queued.        *)
(***************************************************************************)
\* unprocessed.some / processed.some(set => _getSetName(set) === name)
SomeNamed(sets, name) == \E k \in 1..Len(sets) : _getSetName(sets[k]) = name

\* the for loop over the alphabet for one currentStateSet; st = [dfa, unprocessed]
RECURSIVE ConvertSymbols(_, _, _, _, _)
ConvertSymbols(A, st, processed, currentStateSet, symbols) ==
    IF symbols = <<>> THEN st
    ELSE LET symbol == Head(symbols)
             nextStateSet == _getNextStates(A, currentStateSet, symbol)
             nextStateName == _getSetName(nextStateSet)
             isNew == nextStateName \notin st.dfa.states
             d1 == IF isNew THEN addState(st.dfa, nextStateName) ELSE st.dfa
             d2 == IF isNew /\ AnyFinal(A, nextStateSet)
                   THEN toggleFinalState(d1, nextStateName, TRUE) ELSE d1
             u2 == IF isNew /\ ~SomeNamed(processed, nextStateName)
                         /\ ~SomeNamed(st.unprocessed, nextStateName)
                   THEN Append(st.unprocessed, nextStateSet)
                   ELSE st.unprocessed
             d3 == addTransition(d2, _getSetName(currentStateSet), symbol,
                                 nextStateName)
         IN  IF symbol = EPS \/ Len(nextStateSet) = 0
             THEN ConvertSymbols(A, st, processed, currentStateSet, Tail(symbols))
             ELSE ConvertSymbols(A, [dfa |-> d3, unprocessed |-> u2], processed,
                                 currentStateSet, Tail(symbols))

\* the while loop over unprocessed
RECURSIVE ConvertLoop(_, _, _, _)
ConvertLoop(A, dfa, unprocessed, processed) ==
    IF unprocessed = <<>>
    THEN [done |-> TRUE, dfa |-> dfa, processed |-> processed]
    ELSE IF Cardinality(dfa.states) > MaxDfaStates
                \/ Len(Head(unprocessed)) > MaxSetLen
    THEN [done |-> FALSE, dfa |-> dfa, processed |-> processed \o unprocessed]
    ELSE LET currentStateSet == Head(unprocessed)
             processed2 == Append(processed, currentStateSet)
             st == ConvertSymbols(A, [dfa |-> dfa, unprocessed |-> Tail(unprocessed)],
                                  processed2, currentStateSet, SetToSeq(A.alphabet))
         IN  ConvertLoop(A, st.dfa, st.unprocessed, processed2)

convertToDFA(A) ==
    IF A.type = "DFA" THEN [done |-> TRUE, dfa |-> clone(A), sets |-> <<>>]
    ELSE LET initialClosure == _epsilonClosure(A, <<A.initialState>>)
             initialStateName == _getSetName(initialClosure)
             d1 == setInitialState(addState(NewAutomaton("DFA"), initialStateName),
                                   initialStateName)
             d2 == IF AnyFinal(A, initialClosure)
                   THEN toggleFinalState(d1, initialStateName, TRUE) ELSE d1
             r == ConvertLoop(A, d2, <<initialClosure>>, <<>>)
         IN  [done |-> r.done,
              dfa |-> setAlphabet(r.dfa, A.alphabet \ {EPS}),
              sets |-> r.processed]

(***************************************************************************)
(* minimize: partition refinement.  partitions is an array of Sets.        *)
(***************************************************************************)
\* the breadth-first loop of _getReachableStates
RECURSIVE ReachLoop(_, _, _)
ReachLoop(A, reachable, queue) ==
    IF queue = <<>> THEN reachable
    ELSE LET state == Head(queue)
             fresh == {tr[3] : tr \in {x \in A.transitions : x[1] = state}}
                          \ reachable
         IN  ReachLoop(A, reachable \cup fresh, Tail(queue) \o SetToSeq(fresh))

_getReachableStates(A) == ReachLoop(A, {A.initialState}, <<A.initialState>>)

\* targetPartitionIndex of state on symbol (0-based; -1 when there is none)
TargetPartitionIndex(A, partitions, state, symbol) ==
    IF HasTrans(A, state, symbol)
           /\ \E i \in 1..Len(partitions) : Target(A, state, symbol) \in partitions[i]
    THEN (CHOOSE i \in 1..Len(partitions) :
             /\ Target(A, state, symbol) \in partitions[i]
             /\ \A j \in 1..(i - 1) : Target(A, state, symbol) \notin partitions[j]) - 1
    ELSE -1

\* a grouping that puts every state in a group of its own
GroupsEachAlone(A, partition, partitions, symbol) ==
    {{state} : state \in partition}

\* groups.values() for one symbol
Groups(A, partition, partitions, symbol) ==
    LET idx(state) == TargetPartitionIndex(A, partitions, state, symbol)
        keys == {idx(state) : state \in partition}
    IN  {{state \in partition : idx(state) = k} : k \in keys}

\* the for loop over the alphabet of _splitPartition
RECURSIVE SplitBySymbols(_, _, _, _)
SplitBySymbols(A, partition, partitions, symbols) ==
    IF symbols = <<>> THEN <<partition>>
    ELSE LET groups == Groups(A, partition, partitions, Head(symbols)) IN
         IF Cardinality(groups) > 1 THEN SetToSeq(groups)
         ELSE SplitBySymbols(A, partition, partitions, Tail(symbols))

_splitPartition(A, partition, partitions) ==
    IF Cardinality(partition) <= 1 THEN <<partition>>
    ELSE SplitBySymbols(A, partition, partitions, SetToSeq(A.alphabet))

\* one round of the while loop: newPartitions, from the k-th partition on
RECURSIVE RefineRound(_, _, _)
RefineRound(A, partitions, k) ==
    IF k > Len(partitions) THEN <<>>
    ELSE _splitPartition(A, partitions[k], partitions)
             \o RefineRound(A, partitions, k + 1)

\* a refinement that stops after its first round
RefineOneRound(A, partitions) == RefineRound(A, partitions, 1)

\* changed after a round: splits.length > 1 for some partition
Changed(A, partitions) ==
    \E k \in 1..Len(partitions) :
        Len(_splitPartition(A, partitions[k], partitions)) > 1

\* the while loop of step 3; a round sets changed exactly when it lengthens
\* the array (RefineRounds follows the loop by Changed itself)
RECURSIVE Refine(_, _)
Refine(A, partitions) ==
    LET newPartitions == RefineRound(A, partitions, 1) IN
    IF Len(newPartitions) > Len(partitions) THEN Refine(A, newPartitions)
    ELSE newPartitions

\* the values of partitions at the start of each round of the while loop,
\* for at most fuel rounds after the first
RECURSIVE RefineRounds(_, _, _)
RefineRounds(A, partitions, fuel) ==
    IF fuel = 0 \/ ~Changed(A, partitions) THEN <<partitions>>
    ELSE <<partitions>> \o RefineRounds(A, RefineRound(A, partitions, 1), fuel - 1)

\* step 2 without the size checks: an empty Set is pushed too
InitialPartitionsKeepsEmpty(A) ==
    <<A.finalStates,
      {state \in _getReachableStates(A) : state \notin A.finalStates}>>

InitialPartitions(A) ==
    LET reachable == _getReachableStates(A)
        finalStatesSet == A.finalStates
        nonFinalStatesSet == {state \in reachable : state \notin A.finalStates}
    IN  (IF finalStatesSet # {} THEN <<finalStatesSet>> ELSE <<>>)
            \o (IF nonFinalStatesSet # {} THEN <<nonFinalStatesSet>> ELSE <<>>)

\* stateMap[state]: the new name of the partition that holds state
PartitionState(partitions, state) ==
    QName((CHOOSE i \in 1..Len(partitions) :
              /\ state \in partitions[i]
              /\ \A j \in (i + 1)..Len(partitions) : state \notin partitions[j]) - 1)

InSomePartition(partitions, state) ==
    \E i \in 1..Len(partitions) : state \in partitions[i]

\* the first loop of step 4: one state per partition, initial and final marks
RECURSIVE MinimizedStates(_, _, _, _)
MinimizedStates(A, M, partitions, i) ==
    IF i > Len(partitions) THEN M
    ELSE LET partitionState == QName(i - 1)
             m1 == addState(M, partitionState)
             m2 == IF A.initialState \in partitions[i]
                   THEN setInitialState(m1, partitionState) ELSE m1
             m3 == IF partitions[i] \cap A.finalStates # {}
                   THEN toggleFinalState(m2, partitionState, TRUE) ELSE m2
         IN  MinimizedStates(A, m3, partitions, i + 1)

\* [...partition][0]
Representative(partition) == CHOOSE state \in partition : TRUE

\* the triples the second loop of step 4 passes to addTransition; a target
\* outside every partition has no stateMap entry and is passed as undefined
MinimizedTriples(A, partitions) ==
    UNION {LET rep == Representative(partitions[i]) IN
           {<<PartitionState(partitions, rep), symbol,
              IF InSomePartition(partitions, Target(A, rep, symbol))
              THEN PartitionState(partitions, Target(A, rep, symbol))
              ELSE "undefined">> :
               symbol \in {x \in A.alphabet : HasTrans(A, rep, x)}} :
           i \in 1..Len(partitions)}

MinimizeDFA(A) ==
    LET partitions == Refine(A, InitialPartitions(A))
        m1 == MinimizedStates(A, NewAutomaton("DFA"), partitions, 1)
        m2 == AddTransitions(m1, SetToSeq(MinimizedTriples(A, partitions)))
    IN  setAlphabet(m2, A.alphabet)

\* the result is [done, dfa]: an NFA is converted first
minimize(A) ==
    IF A.type # "DFA"
    THEN LET c == convertToDFA(A) IN
         [done |-> c.done, dfa |-> IF c.done THEN MinimizeDFA(c.dfa) ELSE c.dfa]
    ELSE [done |-> TRUE, dfa |-> MinimizeDFA(A)]

(***************************************************************************)
(* The editing session: an automaton constructed empty and changed by the  *)
(* model API.                                                              *)
(***************************************************************************)
Drivers == {"button", "timer"}

NoCall == [op |-> "none"]

\* nothing was called yet and no clone was taken
NoCallers ==
    /\ returned = [d \in Drivers |-> NoCall]
    /\ copy = NoAutomaton
    /\ shared = {}
    /\ edits = 0
    /\ simulator = NewSimulator

\* the fields of the automaton after a call
Assign(A) ==
    /\ type' = A.type
    /\ states' = A.states
    /\ alphabet' = A.alphabet
    /\ transitions' = A.transitions
    /\ entries' = A.entries
    /\ initialState' = A.initialState
    /\ finalStates' = A.finalStates

Becomes(A) ==
    /\ Assign(A)
    /\ UNCHANGED callers

Init ==
    /\ type \in {"DFA", "NFA"}
    /\ states = {}
    /\ alphabet = {}
    /\ transitions = {}
    /\ entries = {}
    /\ initialState = NULL
    /\ finalStates = {}
    /\ NoCallers

AddState(s) ==
    /\ s \in StateNames
    /\ Becomes(addState(Self, s))

RemoveState(s) ==
    /\ s \in StateNames
    /\ Becomes(removeState(Self, s))

SetAlphabet(alph) ==
    /\ alph \in AlphabetChoices
    /\ Becomes(setAlphabet(Self, alph))

SetInitialState(s) ==
    /\ s \in StateNames
    /\ Becomes(setInitialState(Self, s))

ToggleFinalState(s, isFinal) ==
    /\ s \in StateNames
    /\ Becomes(toggleFinalState(Self, s, isFinal))

AddTransition(from, symbol, to) ==
    /\ Cardinality(addTransition(Self, from, symbol, to).transitions) <= MaxTrans
    /\ Becomes(addTransition(Self, from, symbol, to))

RemoveTransition(from, symbol, to) ==
    /\ from \in StateNames /\ to \in StateNames
    /\ Becomes(removeTransition(Self, from, symbol, to))

Next ==
    \/ \E s \in StateNames : AddState(s)
    \/ \E s \in StateNames : RemoveState(s)
    \/ \E alph \in AlphabetChoices : SetAlphabet(alph)
    \/ \E s \in StateNames : SetInitialState(s)
    \/ \E s \in StateNames, isFinal \in BOOLEAN : ToggleFinalState(s, isFinal)
    \/ \E from \in StateNames, symbol \in TransSymbols, to \in StateNames :
          AddTransition(from, symbol, to)
    \/ \E from \in StateNames, symbol \in TransSymbols, to \in StateNames :
          RemoveTransition(from, symbol, to)

Spec == Init /\ [][Next]_vars

(***************************************************************************)
(* The minimize button: the automaton is a DFA over MinStateNames that the *)
(* model API can build, and a click replaces it by its minimization.       *)
(***************************************************************************)
MinStateNames == {"q0", "q1", "q2"}

InitMin ==
    /\ type = "DFA"
    /\ states = MinStateNames
    /\ alphabet = Symbols
    /\ initialState \in MinStateNames
    /\ finalStates \in SUBSET MinStateNames
    /\ \E f \in [MinStateNames \X Symbols -> MinStateNames \cup {NULL}] :
          transitions = {<<p[1], p[2], f[p]>> :
                            p \in {x \in MinStateNames \X Symbols : f[x] # NULL}}
    /\ entries = Keys(transitions)
    /\ NoCallers

MinimizeClicked ==
    /\ type = "DFA"
    /\ minimize(Self).done
    /\ Becomes(minimize(Self).dfa)

NextMin == MinimizeClicked

SpecMin == InitMin /\ [][NextMin]_vars

(***************************************************************************)
(* The convert button: the automaton is an NFA over StateNames that the    *)
(* model API can build, with at most MaxConvertTrans transitions, and a    *)
(* click replaces it by the DFA convertToDFA returns.                      *)
(***************************************************************************)
MaxConvertTrans == 4

ConvertTriples == StateNames \X TransSymbols \X StateNames

InitConvert ==
    /\ type = "NFA"
    /\ states = StateNames
    /\ alphabet = Symbols
    /\ initialState \in StateNames
    /\ finalStates \in SUBSET StateNames
    /\ transitions \in {T \in SUBSET ConvertTriples :
                            Cardinality(T) <= MaxConvertTrans}
    /\ entries = Keys(transitions)
    /\ NoCallers

ConvertClicked ==
    /\ type # "DFA"
    /\ convertToDFA(Self).done
    /\ Becomes(convertToDFA(Self).dfa)

NextConvert == ConvertClicked

SpecConvert == InitConvert /\ [][NextConvert]_vars

(***************************************************************************)
(* The callers of the non-mutating methods.  The automaton is one the      *)
(* model API can build over StateNames: any initial state or none, any     *)
(* final states, any transitions on a or eps among UseTriples (one target  *)
(* per state and symbol for a DFA), alphabet {a, b}.                       *)
(***************************************************************************)
UseTriples ==
    (StateNames \X {"a"} \X StateNames)
        \cup {<<"q0", EPS, "q1">>, <<"q1", EPS, "q0">>}

InitUse ==
    /\ type \in {"DFA", "NFA"}
    /\ states = StateNames
    /\ alphabet = Symbols
    /\ initialState \in StateNames \cup {NULL}
    /\ finalStates \in SUBSET StateNames
    /\ transitions \in SUBSET UseTriples
    /\ type = "DFA" =>
          \A t1, t2 \in transitions :
              (t1[1] = t2[1] /\ t1[2] = t2[2]) => t1 = t2
    /\ entries = Keys(transitions)
    /\ NoCallers

\* the automaton the callers hold
InitDrive ==
    /\ InitUse
    /\ finalStates = {"q1"}

\* the inputs the drivers step through
DriveInputs == {<<"a">>, <<"a", "a">>, <<"a", "b">>}

\* driver d gets value back from a call and keeps it
Returns(d, call) ==
    /\ returned' = [returned EXCEPT ![d] = call]
    /\ UNCHANGED <<copy, shared, edits, simulator>>

\* simulateStep that keeps its position in the automaton
SimulateStepCallAdvances(d, input, step) ==
    /\ step \in 0..Len(input)
    /\ Returns(d, [op |-> "simulateStep", input |-> input, step |-> step,
                   value |-> simulateStep(Self, input, step)])
    /\ initialState' = IF type = "DFA"
                        THEN simulateStep(Self, input, step).state
                        ELSE initialState
    /\ UNCHANGED <<type, states, alphabet, transitions, entries, finalStates>>

SimulateStepCall(d, input, step) ==
    /\ step \in 0..Len(input)
    /\ Returns(d, [op |-> "simulateStep", input |-> input, step |-> step,
                   value |-> simulateStep(Self, input, step)])
    /\ UNCHANGED automaton

SimulateCall(d, input) ==
    /\ Returns(d, [op |-> "simulate", input |-> input,
                   value |-> simulate(Self, input)])
    /\ UNCHANGED automaton

NextDrive ==
    \/ \E d \in Drivers, input \in DriveInputs, step \in 0..MaxInputLen :
          SimulateStepCall(d, input, step)
    \/ \E d \in Drivers, input \in DriveInputs : SimulateCall(d, input)

SpecDrive == InitDrive /\ [][NextDrive]_vars

CloneCall(d) ==
    /\ Returns(d, [op |-> "clone", value |-> clone(Self)])
    /\ UNCHANGED automaton

\* the call returns when the work list empties
ConvertToDFACall(d) ==
    /\ convertToDFA(Self).done
    /\ Returns(d, [op |-> "convertToDFA", value |-> convertToDFA(Self).dfa])
    /\ UNCHANGED automaton

MinimizeCall(d) ==
    /\ minimize(Self).done
    /\ Returns(d, [op |-> "minimize", value |-> minimize(Self).dfa])
    /\ UNCHANGED automaton

\* normalize that renames the states of the automaton it is called on
NormalizeCallInPlace(d) ==
    /\ Returns(d, [op |-> "normalize", value |-> normalize(Self)])
    /\ Assign(normalize(Self))

NormalizeCall(d) ==
    /\ Returns(d, [op |-> "normalize", value |-> normalize(Self)])
    /\ UNCHANGED automaton

ToJSONCall(d) ==
    /\ Returns(d, [op |-> "toJSON", value |-> toJSON(Self)])
    /\ UNCHANGED automaton

ValidateCall(d) ==
    /\ Returns(d, [op |-> "validate", value |-> validate(Self)])
    /\ UNCHANGED automaton

NextCalls ==
    \/ CloneCall("button")
    \/ ConvertToDFACall("button")
    \/ MinimizeCall("button")
    \/ NormalizeCall("button")
    \/ ToJSONCall("button")
    \/ ValidateCall("button")
    \/ \E input \in DriveInputs : SimulateCall("button", input)
    \/ \E input \in DriveInputs, step \in 0..MaxInputLen :
          SimulateStepCall("button", input, step)

SpecCalls == InitDrive /\ [][NextCalls]_vars

(***************************************************************************)
(* The simulation panel: the simulator holds the automaton; the input      *)
(* field, the step and reset buttons and runToCompletion act on it, and    *)
(* _runNextStep runs as the callback of a pending timer or as a call of    *)
(* the method.                                                             *)
(***************************************************************************)
Simulates(S) ==
    /\ simulator' = S
    /\ UNCHANGED <<automaton, returned, copy, shared, edits>>

SetInput(input) == Simulates(setInput(simulator, input))

PerformStep == Simulates(performStep(simulator, Self))

Reset == Simulates(reset(simulator))

RunToCompletion == Simulates(runToCompletion(simulator, Self))

RunNextStep(byTimer) ==
    /\ byTimer => simulator.timers > 0
    /\ Simulates(_runNextStep(
           [simulator EXCEPT !.timers = IF byTimer THEN @ - 1 ELSE @], Self))

NextRun ==
    \/ \E input \in DriveInputs : SetInput(input)
    \/ PerformStep
    \/ Reset
    \/ RunToCompletion
    \/ \E byTimer \in BOOLEAN : RunNextStep(byTimer)

SpecRun == InitDrive /\ [][NextRun]_vars

(***************************************************************************)
(* A clone and its original.  Each of the two automata refers to four      *)
(* containers: the Sets states, alphabet and finalStates, and the          *)
(* transition table with its rows and target Sets.  A call mutates the     *)
(* containers of the automaton it is made on in place, so its effect       *)
(* shows through every container the other automaton shares.               *)
(***************************************************************************)
MaxCloneEdits == 2

CloneSymbols == {"a", EPS}

CloneCalls ==
    {[op |-> "addState", state |-> s] : s \in StateNames}
        \cup {[op |-> "removeState", state |-> s] : s \in StateNames}
        \cup {[op |-> "setAlphabet", alphabet |-> x] : x \in {{}, Symbols}}
        \cup {[op |-> "setInitialState", state |-> s] : s \in StateNames}
        \cup {[op |-> "toggleFinalState", state |-> s, isFinal |-> b] :
                  s \in StateNames, b \in BOOLEAN}
        \cup {[op |-> o, fromState |-> f, symbol |-> x, toState |-> t] :
                  o \in {"addTransition", "removeTransition"},
                  f \in StateNames, x \in CloneSymbols, t \in StateNames}

\* the automaton X after the call
Apply(X, call) ==
    CASE call.op = "addState" -> addState(X, call.state)
      [] call.op = "removeState" -> removeState(X, call.state)
      [] call.op = "setAlphabet" -> setAlphabet(X, call.alphabet)
      [] call.op = "setInitialState" -> setInitialState(X, call.state)
      [] call.op = "toggleFinalState" ->
             toggleFinalState(X, call.state, call.isFinal)
      [] call.op = "addTransition" ->
             addTransition(X, call.fromState, call.symbol, call.toState)
      [] call.op = "removeTransition" ->
             removeTransition(X, call.fromState, call.symbol, call.toState)

\* the containers the call replaces by a new object: this.alphabet = new Set(..)
Replaced(call) == IF call.op = "setAlphabet" THEN {"alphabet"} ELSE {}

\* automaton Y when the containers sh are those of X2
Through(Y, X2, sh) ==
    [Y EXCEPT !.states = IF "states" \in sh THEN X2.states ELSE @,
              !.alphabet = IF "alphabet" \in sh THEN X2.alphabet ELSE @,
              !.finalStates = IF "finalStates" \in sh THEN X2.finalStates ELSE @,
              !.transitions = IF "transitions" \in sh THEN X2.transitions ELSE @,
              !.entries = IF "transitions" \in sh THEN X2.entries ELSE @]

InitClone ==
    /\ InitUse
    /\ initialState = "q0"
    /\ finalStates = {"q1"}

\* a clone that takes over the transition table of its original
CloneTakenShallow ==
    /\ copy = NoAutomaton
    /\ copy' = clone(Self)
    /\ shared' = {"transitions"}
    /\ edits' = 0
    /\ UNCHANGED automaton
    /\ UNCHANGED <<returned, simulator>>

\* c = A.clone(): every container of c is made by the constructor, by
\* new Set in setAlphabet, or by addTransition
CloneTaken ==
    /\ copy = NoAutomaton
    /\ copy' = clone(Self)
    /\ shared' = {}
    /\ edits' = 0
    /\ UNCHANGED automaton
    /\ UNCHANGED <<returned, simulator>>

CallOnOriginal(call) ==
    /\ copy # NoAutomaton
    /\ edits < MaxCloneEdits
    /\ edits' = edits + 1
    /\ shared' = shared \ Replaced(call)
    /\ Assign(Apply(Self, call))
    /\ copy' = Through(copy, Apply(Self, call), shared \ Replaced(call))
    /\ UNCHANGED <<returned, simulator>>

CallOnCopy(call) ==
    /\ copy # NoAutomaton
    /\ edits < MaxCloneEdits
    /\ edits' = edits + 1
    /\ shared' = shared \ Replaced(call)
    /\ copy' = Apply(copy, call)
    /\ Assign(Through(Self, Apply(copy, call), shared \ Replaced(call)))
    /\ UNCHANGED <<returned, simulator>>

NextClone ==
    \/ CloneTaken
    \/ \E call \in CloneCalls : CallOnOriginal(call)
    \/ \E call \in CloneCalls : CallOnCopy(call)

SpecClone == InitClone /\ [][NextClone]_vars

(***************************************************************************)
(* Input strings: arrays of characters, up to MaxInputLen long.            *)
(***************************************************************************)
Inputs == UNION {[1..n -> InputChars] : n \in 0..MaxInputLen}

HasInitial == initialState # NULL

(***************************************************************************)
(* Subset construction, minimization, clone, JSON                          *)
(***************************************************************************)
\* the alphabet holds every symbol of a transition and not eps
AlphabetConsistent ==
    /\ EPS \notin alphabet
    /\ \A tr \in transitions : tr[2] # EPS => tr[2] \in alphabet

\* C1: for an NFA N with an initial state, N.convertToDFA() returns a DFA
\* that accepts exactly the inputs N accepts (stated for the NFAs whose
\* alphabet is consistent).
C1_ConvertPreservesAcceptance ==
    (type = "NFA" /\ HasInitial /\ AlphabetConsistent) =>
        LET c == convertToDFA(Self) IN
        /\ c.done
        /\ \A input \in Inputs :
              simulate(Self, input).accepted = simulate(c.dfa, input).accepted

\* C2: for a DFA with an initial state, minimize returns a DFA that accepts
\* exactly the inputs the DFA accepts (partial DFAs and DFAs with unreachable
\* states included).
C2_MinimizePreservesAcceptance ==
    (type = "DFA" /\ HasInitial) =>
        LET m == minimize(Self) IN
        /\ m.done
        /\ \A input \in Inputs :
              simulate(m.dfa, input).accepted = simulate(Self, input).accepted

\* a partial DFA with an unreachable final state, two reachable states that
\* are merged, and an accepted input of full length
C2_Witness ==
    /\ type = "DFA" /\ HasInitial
    /\ \E q \in states \ _getReachableStates(Self) : q \in finalStates
    /\ \E q \in _getReachableStates(Self), x \in alphabet : ~HasTrans(Self, q, x)
    /\ Cardinality(minimize(Self).dfa.states)
           <= Cardinality(_getReachableStates(Self))
    /\ \E p, q \in _getReachableStates(Self) :
          /\ p # q
          /\ PartitionState(Refine(Self, InitialPartitions(Self)), p)
                 = PartitionState(Refine(Self, InitialPartitions(Self)), q)
    /\ \E input \in Inputs :
          Len(input) = MaxInputLen /\ simulate(Self, input).accepted

\* C3: simulate gives the same accepted flag, path and error on a DFA and on
\* its clone.
C3_CloneSimulatesAlike ==
    type = "DFA" =>
        \A input \in Inputs : simulate(clone(Self), input) = simulate(Self, input)

\* C4: fromJSON(toJSON(A)) has the type, states, alphabet, initialState,
\* finalStates and transitions of A.
C4_JSONRoundTrip == fromJSON(toJSON(Self)) = Self

(***************************************************************************)
(* Invariants of the model API                                             *)
(***************************************************************************)
\* C5: initialState (when set), every final state and every source and
\* target of a transition is a member of states.
C5_MembersOfStates ==
    /\ initialState # NULL => initialState \in states
    /\ finalStates \subseteq states
    /\ \A tr \in transitions : tr[1] \in states /\ tr[3] \in states

C5_Witness ==
    /\ initialState # NULL
    /\ finalStates # {}
    /\ Cardinality(transitions) = MaxTrans
    /\ states # StateNames

\* C6: every symbol other than eps that labels a transition is in the
\* alphabet.
C6_TransitionSymbolsInAlphabet ==
    \A tr \in transitions : tr[2] # EPS => tr[2] \in alphabet

\* C7: eps is never a member of the alphabet, neither of the automaton the
\* model API built nor of the result of clone, convertToDFA, minimize,
\* normalize or fromJSON.
C7_EpsilonNotInAlphabet ==
    /\ EPS \notin alphabet
    /\ EPS \notin clone(Self).alphabet
    /\ EPS \notin convertToDFA(Self).dfa.alphabet
    /\ EPS \notin minimize(Self).dfa.alphabet
    /\ EPS \notin normalize(Self).alphabet
    /\ EPS \notin fromJSON(toJSON(Self)).alphabet

\* C8: in a DFA each (state, symbol) pair has at most one target and no
\* transition is labelled eps.
C8_DFAInvariant ==
    type = "DFA" =>
        /\ \A q \in states, x \in TransSymbols :
              Cardinality(Targets(Self, q, x)) <= 1
        /\ \A tr \in transitions : tr[2] # EPS

\* C9: a call that names a state not in states has no effect:
\* addTransition returns false and changes nothing, setInitialState and
\* toggleFinalState change nothing.
C9_UnknownStateRejected ==
    [][/\ \A from \in StateNames, symbol \in TransSymbols, to \in StateNames :
             ((from \notin states \/ to \notin states)
                  /\ AddTransition(from, symbol, to))
                 => (UNCHANGED vars
                        /\ ~addTransitionRet(Self, from, symbol, to))
       /\ \A s \in StateNames :
             (s \notin states /\ SetInitialState(s)) => UNCHANGED vars
       /\ \A s \in StateNames, isFinal \in BOOLEAN :
             (s \notin states /\ ToggleFinalState(s, isFinal))
                 => UNCHANGED vars]_vars

\* a state in which a call can name an unknown state next to a known one,
\* with something to lose
C9_Witness ==
    /\ states # {} /\ states # StateNames
    /\ transitions # {} /\ initialState # NULL /\ finalStates # {}

(***************************************************************************)
(* Acceptance                                                              *)
(***************************************************************************)
\* the states reachable from S by zero or more eps-transitions
RECURSIVE RefEpsReach(_, _)
RefEpsReach(A, S) ==
    LET more == S \cup {tr[3] : tr \in {x \in A.transitions :
                                           x[1] \in S /\ x[2] = EPS}}
    IN  IF more = S THEN S ELSE RefEpsReach(A, more)

RefStep(A, S, symbol) ==
    LET moved == {tr[3] : tr \in {x \in A.transitions :
                                     x[1] \in S /\ x[2] = symbol}}
    IN  IF A.type = "DFA" THEN moved ELSE RefEpsReach(A, moved)

\* the state (DFA) or state set (NFA) reached after the first k characters
RECURSIVE RefReached(_, _, _)
RefReached(A, input, k) ==
    IF k = 0
    THEN IF A.type = "DFA" THEN {A.initialState}
         ELSE RefEpsReach(A, {A.initialState})
    ELSE RefStep(A, RefReached(A, input, k - 1), input[k])

\* the whole input is consumed without error and a final state is reached
RefAccepted(A, input) ==
    /\ A.initialState # NULL
    /\ \A k \in 1..Len(input) :
          input[k] \in A.alphabet /\ RefReached(A, input, k) # {}
    /\ RefReached(A, input, Len(input)) \cap A.finalStates # {}

\* C10: simulate(s).accepted is true exactly when the whole of s is consumed
\* without error and the state reached (DFA) or some state of the set
\* reached (NFA) is final; an accepting result carries no error.
C10_AcceptedExactly ==
    \A input \in Inputs :
        LET r == simulate(Self, input) IN
        /\ r.accepted = RefAccepted(Self, input)
        /\ r.accepted => r.error = NoError /\ Len(r.path) = Len(input) + 1

\* the positions of input that simulate cannot get past: the symbol is not
\* in the alphabet, or no state is left after it
Halts(A, input) ==
    {k \in 1..Len(input) :
        input[k] \notin A.alphabet \/ RefReached(A, input, k) = {}}

First(S) == CHOOSE k \in S : \A j \in S : k <= j

C10_Witness ==
    /\ type = "NFA"
    /\ \E tr \in transitions : tr[2] = EPS
    /\ \E input \in Inputs :
          /\ Len(input) = MaxInputLen
          /\ simulate(Self, input).accepted
          /\ \E other \in Inputs :
                Len(other) = MaxInputLen /\ ~simulate(Self, other).accepted
                    /\ simulate(Self, other).error # NoError

StepMatches(v, A, input, step) ==
    LET n == IF step < Len(input) THEN step ELSE Len(input)
        stuck == {j \in 1..n : RefReached(A, input, j) = {}}
    IN  /\ v.remainingInput = SubSeq(input, step + 1, Len(input))
        /\ IF stuck = {}
           THEN /\ v.error = NoError
                /\ v.complete = (step >= Len(input))
                /\ v.accepted = (RefReached(A, input, n) \cap A.finalStates # {})
                /\ IF A.type = "DFA"
                   THEN {v.state} = RefReached(A, input, n)
                   ELSE SeqToSet(v.states) = RefReached(A, input, n)
           ELSE /\ v.error # NoError
                /\ v.error[3] = input[First(stuck)]
                /\ v.complete
                /\ ~v.accepted

\* C13: whatever simulateStep and simulate calls the drivers made before,
\* in whatever order, a call simulateStep(input, k) returns the snapshot
\* that (input, k) determine on the automaton, and no simulateStep or
\* simulate call changes the automaton.
C13_SimulateStepKeepsNoCursor ==
    [][/\ \A d \in Drivers, input \in DriveInputs, step \in 0..MaxInputLen :
             (/\ returned'[d].op = "simulateStep"
              /\ returned'[d].input = input
              /\ returned'[d].step = step
              /\ SimulateStepCall(d, input, step))
                 => /\ UNCHANGED automaton
                    /\ StepMatches(returned'[d].value, Self, input, step)
       /\ \A d \in Drivers, input \in DriveInputs :
             (/\ returned'[d].op = "simulate"
              /\ returned'[d].input = input
              /\ SimulateCall(d, input))
                 => UNCHANGED automaton]_vars

\* both drivers hold a snapshot, of different inputs at different steps,
\* one of them behind the other and one of them with an error
C13_Witness ==
    /\ returned["button"].op = "simulateStep"
    /\ returned["timer"].op = "simulateStep"
    /\ returned["button"].input # returned["timer"].input
    /\ returned["button"].step > returned["timer"].step
    /\ returned["timer"].step > 0
    /\ returned["button"].value.error # NoError
    /\ returned["timer"].value.error = NoError
    /\ returned["timer"].value.state # initialState

\* C18: a call of clone, convertToDFA, minimize, normalize, toJSON,
\* simulate, simulateStep or validate leaves type, states, alphabet,
\* transitions, initialState and finalStates of the automaton it is made on
\* as they were.
C18_QueriesLeaveAutomaton ==
    [][\A d \in Drivers :
          /\ (returned'[d].op = "clone" /\ CloneCall(d)) => UNCHANGED automaton
          /\ (returned'[d].op = "convertToDFA" /\ ConvertToDFACall(d))
                 => UNCHANGED automaton
          /\ (returned'[d].op = "minimize" /\ MinimizeCall(d))
                 => UNCHANGED automaton
          /\ (returned'[d].op = "normalize" /\ NormalizeCall(d))
                 => UNCHANGED automaton
          /\ (returned'[d].op = "toJSON" /\ ToJSONCall(d)) => UNCHANGED automaton
          /\ (returned'[d].op = "validate" /\ ValidateCall(d))
                 => UNCHANGED automaton
          /\ \A input \in DriveInputs :
                (returned'[d].op = "simulate" /\ SimulateCall(d, input))
                    => UNCHANGED automaton
          /\ \A input \in DriveInputs, step \in 0..MaxInputLen :
                (returned'[d].op = "simulateStep"
                    /\ SimulateStepCall(d, input, step))
                    => UNCHANGED automaton]_vars

\* normalize has returned an automaton with other state names than the
\* ones of the automaton it was called on, which has transitions
C18_Witness ==
    /\ returned["button"].op = "normalize"
    /\ returned["button"].value.states # states
    /\ returned["button"].value.transitions # transitions
    /\ transitions # {}

\* C19: after c = A.clone(), a model-API call on c leaves A unchanged and a
\* model-API call on A leaves c unchanged.
C19_CloneIndependent ==
    [][\A call \in CloneCalls :
          /\ (edits' = edits + 1 /\ CallOnCopy(call)) => UNCHANGED automaton
          /\ (edits' = edits + 1 /\ CallOnOriginal(call)) => copy' = copy]_vars

\* an NFA and its clone after MaxCloneEdits calls, with different target
\* sets for one state and symbol
C19_Witness ==
    /\ type = "NFA"
    /\ copy # NoAutomaton
    /\ edits = MaxCloneEdits
    /\ \E from \in StateNames, symbol \in CloneSymbols :
          /\ Targets(Self, from, symbol) # {}
          /\ Targets(copy, from, symbol) # {}
          /\ Targets(Self, from, symbol) # Targets(copy, from, symbol)

(***************************************************************************)
(* Subset construction: naming of the state sets                           *)
(***************************************************************************)
\* C14: when convertToDFA returns on an NFA with an initial state, no two
\* states of the DFA stand for the same set of NFA states.
C14_SetNamingInjective ==
    (type = "NFA" /\ HasInitial /\ AlphabetConsistent) =>
        LET c == convertToDFA(Self) IN
        c.done =>
            \A i, j \in 1..Len(c.sets) :
                SeqToSet(c.sets[i]) = SeqToSet(c.sets[j]) => i = j

(***************************************************************************)
(* Minimization: reachability and idempotence                              *)
(***************************************************************************)
\* the states of A that a path of transitions leads to from S
RECURSIVE RefReachable(_, _)
RefReachable(A, S) ==
    LET more == S \cup {tr[3] : tr \in {x \in A.transitions : x[1] \in S}}
    IN  IF more = S THEN S ELSE RefReachable(A, more)

\* C15: every state of minimize(D), for a DFA D with an initial state, is
\* reachable from the initial state of minimize(D).
C15_MinimizedStatesReachable ==
    (type = "DFA" /\ HasInitial) =>
        LET m == minimize(Self).dfa IN
        m.states \subseteq RefReachable(m, {m.initialState})

\* C16: for a DFA D with an initial state, minimize(minimize(D)) has as
\* many states as minimize(D).
C16_MinimizeTwiceSameCount ==
    (type = "DFA" /\ HasInitial) =>
        LET m == minimize(Self).dfa IN
        Cardinality(minimize(m).dfa.states) = Cardinality(m.states)

\* a DFA with an unreachable final state that minimize makes smaller, but
\* not down to one state
C16_Witness ==
    /\ type = "DFA" /\ HasInitial
    /\ \E q \in states \ RefReachable(Self, {initialState}) : q \in finalStates
    /\ Cardinality(minimize(Self).dfa.states) < Cardinality(states)
    /\ Cardinality(minimize(Self).dfa.states) > 1
    /\ Cardinality(RefReachable(Self, {initialState})) = Cardinality(states) - 1

(***************************************************************************)
(* Epsilon closure and determinism                                         *)
(***************************************************************************)
\* the sets of states of the automaton, as arrays in every order
StateArrays ==
    UNION {{q \in [1..n -> states] : \A i, j \in 1..n : q[i] = q[j] => i = j} :
              n \in 0..Cardinality(states)}

\* C17: for every set S of states of the automaton, the eps-closure of the
\* eps-closure of S is the eps-closure of S.
C17_EpsilonClosureIdempotent ==
    \A S \in StateArrays :
        _epsilonClosure(Self, _epsilonClosure(Self, S)) = _epsilonClosure(Self, S)

\* an NFA with an eps-transition out of a state whose closure is larger
\* than the state alone, and with an eps-cycle
C17_Witness ==
    /\ type = "NFA"
    /\ \E q \in states : Len(_epsilonClosure(Self, <<q>>)) > 1
    /\ \E p, q \in states :
          p # q /\ <<p, EPS, q>> \in transitions /\ <<q, EPS, p>> \in transitions

\* C20: isDeterministic is false for an automaton that has an
\* eps-transition.
C20_EpsilonMeansNondeterministic ==
    (\E tr \in transitions : tr[2] = EPS) => ~isDeterministic(Self)

\* some (state, symbol) pair of the automaton has more than one target
SomePairHasTwoTargets ==
    \E tr1, tr2 \in transitions :
        tr1[1] = tr2[1] /\ tr1[2] = tr2[2] /\ tr1[3] # tr2[3]

\* C21: for an automaton with at least one state, a non-empty alphabet and
\* no eps-transition, isDeterministic is false exactly when some
\* (state, symbol) pair has more than one target state.
C21_NondeterministicIffTwoTargets ==
    (states # {} /\ alphabet # {} /\ \A tr \in transitions : tr[2] # EPS) =>
        (~isDeterministic(Self) <=> SomePairHasTwoTargets)

(***************************************************************************)
(* Editing: removeState, removeTransition, the transition table            *)
(***************************************************************************)
\* C22: after removeState(s), s is not in states, is not the initial state,
\* is not final, no transition has s as source or target, the transitions
\* between the other states are the ones there were, and in an NFA no
\* (state, symbol) entry is left with an empty target set.
C22_RemoveStateCascades ==
    [][\A s \in StateNames :
          RemoveState(s) =>
              /\ s \notin states'
              /\ initialState' # s
              /\ s \notin finalStates'
              /\ \A tr \in transitions' : tr[1] # s /\ tr[3] # s
              /\ \A tr \in transitions :
                    (tr[1] # s /\ tr[3] # s) =>
                        tr \in transitions' /\ <<tr[1], tr[2]>> \in entries'
              /\ transitions' \subseteq transitions
              /\ type = "NFA" =>
                    \A e \in entries' :
                        \E tr \in transitions' : tr[1] = e[1] /\ tr[2] = e[2]]_vars

\* an NFA whose state q1 is initial and final, is the only target of one
\* entry of q0 and one of the two targets of another
C22_Witness ==
    /\ type = "NFA"
    /\ initialState = "q1" /\ "q1" \in finalStates
    /\ \E x, y \in TransSymbols :
          /\ Targets(Self, "q0", x) = {"q1"}
          /\ Targets(Self, "q0", y) = {"q0", "q1"}

\* C23: after a removeTransition(from, symbol, to) that returns true, with
\* symbol other than eps, symbol is out of the alphabet when no transition
\* is labelled with it any more, and the alphabet is as it was when some
\* transition still is.
C23_RemoveTransitionTrimsAlphabet ==
    [][\A from \in StateNames, symbol \in Symbols, to \in StateNames :
          (removeTransitionRet(Self, from, symbol, to)
               /\ RemoveTransition(from, symbol, to)) =>
              IF \E tr \in transitions' : tr[2] = symbol
              THEN alphabet' = alphabet
              ELSE alphabet' = alphabet \ {symbol} /\ symbol \notin alphabet']_vars

\* the alphabet is {a, b}; a labels one transition and b labels two
C23_Witness ==
    /\ alphabet = Symbols
    /\ Cardinality({tr \in transitions : tr[2] = "a"}) = 1
    /\ Cardinality({tr \in transitions : tr[2] = "b"}) = 2

(***************************************************************************)
(* validate                                                                *)
(***************************************************************************)
\* what the automaton lacks: an initial state, a final state, and for a DFA
\* a transition for a pair of states x alphabet
Missing ==
    (IF initialState = NULL THEN {<<"NoInitialState", "", "">>} ELSE {})
        \cup (IF finalStates = {} THEN {<<"NoFinalStates", "", "">>} ELSE {})
        \cup (IF type = "DFA"
              THEN {<<"NoTransition", p[1], p[2]>> :
                       p \in {x \in states \X alphabet :
                                 ~\E tr \in transitions :
                                     tr[1] = x[1] /\ tr[2] = x[2]}}
              ELSE {})

\* C24: validate() returns valid = true exactly when an initial state is
\* set, finalStates is not empty and, for a DFA, every pair of
\* states x alphabet has a transition; errors holds one entry for each
\* missing item, all of them in the one call.
C24_ValidateReportsAll ==
    LET v == validate(Self) IN
    /\ v.valid <=> Missing = {}
    /\ SeqToSet(v.errors) = Missing
    /\ Len(v.errors) = Cardinality(Missing)

\* a DFA without initial state and without final state that has a
\* transition and lacks three
C24_Witness ==
    /\ type = "DFA" /\ initialState = NULL /\ finalStates = {}
    /\ transitions # {}
    /\ Len(validate(Self).errors) = 5

(***************************************************************************)
(* normalize                                                               *)
(***************************************************************************)
\* C25: normalize() returns an automaton with as many states as the
\* original and the same alphabet, related to it by a bijection f on states
\* that maps the initial state to q0, the final states onto the final
\* states and the transitions (p, a, q) onto the transitions (f(p), a, f(q)).
C25_NormalizeIsRenaming ==
    LET n == normalize(Self) IN
    /\ Cardinality(n.states) = Cardinality(states)
    /\ n.alphabet = alphabet
    /\ \E f \in [states -> n.states] :
          /\ \A p, q \in states : f[p] = f[q] => p = q
          /\ IF initialState = NULL THEN n.initialState = NULL
             ELSE n.initialState = "q0" /\ f[initialState] = "q0"
          /\ n.finalStates = {f[q] : q \in finalStates}
          /\ n.transitions = {<<f[tr[1]], tr[2], f[tr[3]]>> : tr \in transitions}

(***************************************************************************)
(* The simulator                                                           *)
(***************************************************************************)
\* the simulator S holds a simulationState that is complete or has an error
Completed(S) ==
    /\ S.simulationState # NoSimulationState
    /\ S.simulationState.complete \/ S.simulationState.error # NoError

\* C26: runToCompletion runs the simulation to completion.  When a call made
\* while the simulator is not running returns, the simulator holds a
\* simulationState that is complete or has an error and is not running, or
\* it is running with a timer callback pending that takes the next step.
C26_RunToCompletionRuns ==
    [][(~simulator.isRunning /\ RunToCompletion) =>
           \/ Completed(simulator') /\ ~simulator'.isRunning
           \/ simulator'.isRunning /\ simulator'.timers > 0]_vars

\* C27: simulateStep(input, 0) returns the initial state (DFA) or the
\* eps-closure of the initial state (NFA), the whole input as
\* remainingInput, complete exactly when the input is empty, and accepted
\* exactly when that state or closure holds a final state.
C27_StepZeroIsInitial ==
    \A input \in Inputs :
        LET v == simulateStep(Self, input, 0)
            closure == RefEpsReach(Self, {initialState})
        IN  /\ v.remainingInput = input
            /\ v.complete <=> Len(input) = 0
            /\ v.error = NoError
            /\ IF type = "DFA"
               THEN /\ v.state = initialState
                    /\ v.accepted <=> initialState \in finalStates
               ELSE /\ SeqToSet(v.states) = closure
                    /\ Len(v.states) = Cardinality(closure)
                    /\ v.accepted <=> closure \cap finalStates # {}

\* an NFA whose initial state is not final and reaches a final state by an
\* eps-transition
C27_Witness ==
    /\ type = "NFA" /\ HasInitial
    /\ initialState \notin finalStates
    /\ simulateStep(Self, <<"a">>, 0).accepted
    /\ Len(simulateStep(Self, <<"a">>, 0).states) = 2

(***************************************************************************)
(* The transition table of an NFA                                          *)
(***************************************************************************)
\* C28: in an NFA, whatever model-API calls were made, no (state, symbol)
\* entry of the transition table maps to an empty target set.
C28_NoEmptyTargetSet ==
    type = "NFA" => \A e \in entries : Targets(Self, e[1], e[2]) # {}

\* an NFA with an entry of one target and an entry of two, and a pair of a
\* state and a symbol of the alphabet without entry
C28_Witness ==
    /\ type = "NFA"
    /\ \E e \in entries : Cardinality(Targets(Self, e[1], e[2])) = 1
    /\ \E e \in entries : Cardinality(Targets(Self, e[1], e[2])) = 2
    /\ \E q \in states, x \in alphabet : <<q, x>> \notin entries

(***************************************************************************)
(* Partition refinement                                                    *)
(***************************************************************************)
\* the partitions minimize holds when its refinement loop stops
FinalPartitions == Refine(Self, InitialPartitions(Self))

\* C29: when the refinement of minimize stops, for every block B and every
\* symbol a of the alphabet, either no member of B has an a-transition, or
\* every member has one and all of them lead into one block.
C29_BlocksAgreeOnTargets ==
    (type = "DFA" /\ HasInitial) =>
        LET P == FinalPartitions IN
        \A i \in 1..Len(P), a \in alphabet :
            \/ \A q \in P[i] : Targets(Self, q, a) = {}
            \/ \E j \in 1..Len(P) :
                  \A q \in P[i] :
                      Targets(Self, q, a) # {} /\ Targets(Self, q, a) \subseteq P[j]

\* the loop stops within the rounds R, each round that reported a change
\* left more blocks than it found, and there are never more blocks than
\* states
RoundsTerminate(R) ==
    /\ ~Changed(Self, R[Len(R)])
    /\ \A r \in 1..(Len(R) - 1) : Len(R[r + 1]) > Len(R[r])
    /\ \A r \in 1..Len(R) : Len(R[r]) <= Cardinality(states)

\* C30: the refinement loop of minimize terminates for every DFA that has
\* an initial state: a round that reports a change leaves more blocks than
\* it found, and there are never more blocks than states.
C30_RefinementTerminatesWithInitial ==
    (type = "DFA" /\ HasInitial) =>
        RoundsTerminate(RefineRounds(Self, InitialPartitions(Self),
                                     Cardinality(states) + 2))

\* a DFA with an initial state whose two states are final and are split by
\* the first round
C30_Witness ==
    /\ type = "DFA" /\ HasInitial
    /\ finalStates = StateNames
    /\ Len(RefineRounds(Self, InitialPartitions(Self), Cardinality(states) + 2)) = 2

\* C30 as stated, for every DFA: also one without initial state
C30_RefinementTerminates ==
    type = "DFA" =>
        RoundsTerminate(RefineRounds(Self, InitialPartitions(Self),
                                     Cardinality(states) + 2))

(***************************************************************************)
(* Epsilon closure: reachability and canonical form                        *)
(***************************************************************************)
\* the arrays _epsilonClosure is handed: members are states of the
\* automaton or its initialState, repeats included (_getNextStates hands
\* over a concatenation)
ClosureArguments ==
    UNION {[1..n -> states \cup {initialState}] :
              n \in 0..(Cardinality(states) + 1)}

\* the while loop of _epsilonClosure leaves within fuel iterations
RECURSIVE EpsilonLoopWithin(_, _, _, _)
EpsilonLoopWithin(A, closure, stack, fuel) ==
    IF stack = <<>> THEN TRUE
    ELSE IF fuel = 0 THEN FALSE
    ELSE LET state == stack[Len(stack)]
             rest == SubSeq(stack, 1, Len(stack) - 1)
             fresh == SetToSeq(EpsilonTargets(A, state) \ SeqToSet(closure))
         IN  EpsilonLoopWithin(A, closure \o fresh, rest \o fresh, fuel - 1)

Canonical(q) == \A i, j \in 1..Len(q) : i < j => Rank(q[i]) < Rank(q[j])

\* C32: on an NFA, for every set S of states (an array without repeats)
\* and every symbol, _epsilonClosure(S) and _getNextStates(S, symbol) are
\* sorted and hold each state at most once.
C32_ClosureAndMoveCanonical ==
    type = "NFA" =>
        \A S \in StateArrays :
            /\ Canonical(_epsilonClosure(Self, S))
            /\ \A symbol \in TransSymbols :
                  Canonical(_getNextStates(Self, S, symbol))

(***************************************************************************)
(* Subset construction: final states, transitions, well-formedness         *)
(***************************************************************************)
\* C33: when convertToDFA returns on an NFA, the states of the DFA are the
\* names of the state sets it processed, and a state is final if and only
\* if its set holds at least one final state of the NFA.
C33_FinalIffSetHasFinal ==
    type = "NFA" =>
        LET c == convertToDFA(Self) IN
        c.done =>
            /\ c.dfa.states = {_getSetName(c.sets[k]) : k \in 1..Len(c.sets)}
            /\ \A k \in 1..Len(c.sets) :
                  _getSetName(c.sets[k]) \in c.dfa.finalStates
                      <=> SeqToSet(c.sets[k]) \cap finalStates # {}

\* a conversion that returns with a final state whose set holds a final and
\* a non-final state of the NFA, and with a non-final state
C33_Witness ==
    /\ type = "NFA"
    /\ LET c == convertToDFA(Self) IN
       /\ c.done
       /\ \E k \in 1..Len(c.sets) :
             /\ SeqToSet(c.sets[k]) \cap finalStates # {}
             /\ SeqToSet(c.sets[k]) \ finalStates # {}
             /\ _getSetName(c.sets[k]) \in c.dfa.finalStates
       /\ c.dfa.states \ c.dfa.finalStates # {}

\* C34: when convertToDFA returns on an NFA, for every state of the DFA
\* (a processed set S) and every alphabet symbol a (eps is no alphabet
\* symbol), the DFA has a transition from S on a if and only if the
\* eps-closure of move(S, a) is not empty, its only target is then a state
\* that stands for that set, and the name of the empty set is no state of
\* the DFA.
C34_TransitionIffMoveNonEmpty ==
    type = "NFA" =>
        LET c == convertToDFA(Self) IN
        c.done =>
            /\ EmptySetName \notin c.dfa.states
            /\ \A k \in 1..Len(c.sets) : \A a \in alphabet \ {EPS} :
                  LET from == _getSetName(c.sets[k])
                      next == RefStep(Self, SeqToSet(c.sets[k]), a)
                  IN  /\ HasTrans(c.dfa, from, a) <=> next # {}
                      /\ next = {} => Targets(c.dfa, from, a) = {}
                      /\ next # {} =>
                            \E j \in 1..Len(c.sets) :
                                /\ SeqToSet(c.sets[j]) = next
                                /\ Targets(c.dfa, from, a)
                                       = {_getSetName(c.sets[j])}

\* a conversion that returns with a state that has a transition on one
\* symbol into another state and none on the other symbol
C34_Witness ==
    /\ type = "NFA"
    /\ LET c == convertToDFA(Self) IN
       /\ c.done
       /\ \E k \in 1..Len(c.sets) :
             LET from == _getSetName(c.sets[k]) IN
             /\ RefStep(Self, SeqToSet(c.sets[k]), "a") = {}
             /\ ~HasTrans(c.dfa, from, "a")
             /\ RefStep(Self, SeqToSet(c.sets[k]), "b") = StateNames
             /\ Targets(c.dfa, from, "b") = {"{q0,q1}"}
             /\ from # "{q0,q1}"

\* a DFA with one initial state, every state reachable from it, at most one
\* target per (state, symbol), no eps-transition, and every transition
\* endpoint and final state a member of states
WellFormedDFA(D) ==
    /\ D.type = "DFA"
    /\ D.initialState \in D.states
    /\ RefReachable(D, {D.initialState}) = D.states
    /\ \A e \in D.entries : Cardinality(Targets(D, e[1], e[2])) = 1
    /\ D.entries = Keys(D.transitions)
    /\ \A tr \in D.transitions :
          tr[1] \in D.states /\ tr[3] \in D.states /\ tr[2] # EPS
    /\ D.finalStates \subseteq D.states

\* C35: when convertToDFA returns on an NFA N with an initial state, the
\* result is a well-formed DFA and its alphabet is the alphabet of N.
C35_ConvertedIsWellFormed ==
    (type = "NFA" /\ HasInitial) =>
        LET c == convertToDFA(Self) IN
        c.done => WellFormedDFA(c.dfa) /\ c.dfa.alphabet = alphabet

(***************************************************************************)
(* Minimization: merging and the blocks                                    *)
(***************************************************************************)
\* both final or both not, and for every alphabet symbol the same target
\* or both none
SameBehaviour(p, q) ==
    /\ (p \in finalStates) = (q \in finalStates)
    /\ \A a \in alphabet : Targets(Self, p, a) = Targets(Self, q, a)

\* two distinct reachable states of the automaton
ReachablePairs ==
    LET reachable == RefReachable(Self, {initialState}) \cap states IN
    {pq \in reachable \X reachable : pq[1] # pq[2]}

\* C36: in a DFA, two distinct reachable states that are both final or both
\* non-final and have the same target (or both none) on every alphabet
\* symbol are in one block when the refinement stops, so they are mapped to
\* the same state of minimize(D), and minimize(D) has fewer states than D.
C36_EquivalentStatesMerged ==
    type = "DFA" =>
        \A pq \in ReachablePairs :
            SameBehaviour(pq[1], pq[2]) =>
                /\ InSomePartition(FinalPartitions, pq[1])
                /\ PartitionState(FinalPartitions, pq[1])
                       = PartitionState(FinalPartitions, pq[2])
                /\ Cardinality(minimize(Self).dfa.states) < Cardinality(states)

\* a DFA with three reachable states of which exactly two, both final and
\* with transitions, behave alike: the result has two states
C36_Witness ==
    /\ type = "DFA"
    /\ Cardinality(ReachablePairs) = 6
    /\ \E pq \in ReachablePairs :
          /\ SameBehaviour(pq[1], pq[2])
          /\ pq[1] \in finalStates
          /\ \E a \in alphabet : Targets(Self, pq[1], a) # {}
    /\ finalStates # states
    /\ Cardinality(minimize(Self).dfa.states) = 2

\* the partitions at the start of each round of the refinement loop
Rounds == RefineRounds(Self, InitialPartitions(Self), Cardinality(states) + 2)

\* C37: in a DFA, in every round of the refinement of minimize the blocks
\* are non-empty and pairwise disjoint and no block holds both a final and
\* a non-final state; the result has one state per block, its initial state
\* is the state of the block that holds the initial state of D, and a state
\* is final exactly when its block consists of final states.
C37_BlocksAndMarks ==
    type = "DFA" =>
        LET R == Rounds
            P == R[Len(R)]
            M == minimize(Self).dfa
        IN  /\ \A r \in 1..Len(R) : \A i \in 1..Len(R[r]) :
                  /\ R[r][i] # {}
                  /\ R[r][i] \subseteq finalStates \/ R[r][i] \cap finalStates = {}
                  /\ \A j \in 1..Len(R[r]) : i # j => R[r][i] \cap R[r][j] = {}
            /\ ~Changed(Self, P)
            /\ M.states = {QName(i - 1) : i \in 1..Len(P)}
            /\ M.initialState \in M.states
            /\ \E i \in 1..Len(P) :
                  initialState \in P[i] /\ M.initialState = QName(i - 1)
            /\ \A i \in 1..Len(P) :
                  QName(i - 1) \in M.finalStates <=> P[i] \subseteq finalStates

\* a DFA with an initial state whose refinement has a changing round and
\* ends with three blocks, one of them final, one neither final nor initial
C37_Witness ==
    /\ type = "DFA" /\ HasInitial
    /\ Len(Rounds) = 2
    /\ LET M == minimize(Self).dfa IN
       /\ Cardinality(M.states) = 3
       /\ M.finalStates # {}
       /\ M.states \ (M.finalStates \cup {M.initialState}) # {}

(***************************************************************************)
(* simulateStep against simulate                                           *)
(***************************************************************************)
\* simulateStep(input, k) shows what simulate(input).path[k] shows
AgreesOnEntry(input, k) ==
    LET entry == simulate(Self, input).path[k + 1]
        v == simulateStep(Self, input, k)
    IN  /\ v.remainingInput = entry.input
        /\ IF type = "DFA" THEN v.state = entry.state
                           ELSE v.states = entry.states

\* C38: for every automaton the model API builds, every input and every k
\* up to its length, if simulate(input).path has an entry k then
\* simulateStep(input, k) reports the state (DFA) or state set (NFA) and
\* the remaining input of that entry, and simulateStep(input,
\* input.length).accepted equals simulate(input).accepted.
C38_StepAgreesWithSimulate ==
    \A input \in Inputs :
        /\ \A k \in 0..Len(input) :
              k < Len(simulate(Self, input).path) => AgreesOnEntry(input, k)
        /\ simulateStep(Self, input, Len(input)).accepted
               = simulate(Self, input).accepted

(***************************************************************************)
(* removeTransition: what it leaves alone                                  *)
(***************************************************************************)
\* C39: removeTransition(from, symbol, to) removes no transition other
\* than (from, symbol, to) and adds none, and when (from, symbol, to) is no
\* transition of the automaton the transition table is left as it was, for
\* DFA and NFA.
C39_RemoveTransitionRemovesOnlyThat ==
    [][\A from \in StateNames, symbol \in TransSymbols, to \in StateNames :
          RemoveTransition(from, symbol, to) =>
              /\ transitions' \subseteq transitions
              /\ transitions \ {<<from, symbol, to>>} \subseteq transitions'
              /\ <<from, symbol, to>> \notin transitions =>
                     transitions' = transitions /\ entries' = entries]_vars

(***************************************************************************)
(* The simulator with the automaton it was handed: this.automaton is copy  *)
(* (no automaton after construction, a clone of the page's automaton after *)
(* setAutomaton), while the page's automaton goes on being edited.         *)
(***************************************************************************)
\* setAutomaton(automaton.clone())
SetAutomaton ==
    /\ copy' = clone(Self)
    /\ simulator' = reset(simulator)
    /\ UNCHANGED <<automaton, returned, shared, edits>>

\* performStep on the automaton the simulator holds; null is returned and
\* nothing changes when it holds none
PerformStepHeld ==
    Simulates(IF copy = NoAutomaton THEN simulator
              ELSE performStep(simulator, copy))

NextSim ==
    \/ SetAutomaton
    \/ \E input \in DriveInputs : SetInput(input)
    \/ Reset
    \/ PerformStepHeld
    \/ \E s \in StateNames, isFinal \in BOOLEAN : ToggleFinalState(s, isFinal)

SpecSim == InitDrive /\ [][NextSim]_vars

\* the snapshot is complete or carries an error
Over(S) ==
    /\ S.simulationState # NoSimulationState
    /\ S.simulationState.complete \/ S.simulationState.error # NoError

\* step, simulationState and isRunning as reset() leaves them
Rewound(S) ==
    S.step = 0 /\ S.simulationState = NoSimulationState /\ ~S.isRunning

\* C40: under any sequence of setAutomaton, setInput, reset and performStep
\* calls, 0 <= step <= input.length; setAutomaton, setInput and reset leave
\* step = 0, simulationState = null and isRunning = false; performStep
\* leaves step as it is when the snapshot it had, or the one it takes, is
\* complete or carries an error, and advances it by one otherwise.
C40_StepWithinInput ==
    /\ [](simulator.step \in 0..Len(simulator.input))
    /\ [][/\ SetAutomaton => Rewound(simulator')
          /\ Reset => Rewound(simulator')
          /\ \A input \in DriveInputs :
                SetInput(input) =>
                    Rewound(simulator') /\ simulator'.input = input
          /\ (copy # NoAutomaton /\ PerformStepHeld) =>
                /\ simulator'.input = simulator.input
                /\ (Over(simulator) \/ Over(simulator'))
                       => simulator'.step = simulator.step
                /\ ~(Over(simulator) \/ Over(simulator'))
                       => simulator'.step = simulator.step + 1]_vars

\* the simulator holds an automaton, has stepped to the end of a
\* two-character input and its snapshot is complete without error
C40_Witness ==
    /\ copy # NoAutomaton
    /\ Len(simulator.input) = 2
    /\ simulator.step = 2
    /\ Over(simulator)
    /\ simulator.simulationState.error = NoError

====
